---- MODULE Spec2Model ----
(***************************************************************************)
(* Model of OpenEvalProject/backend.                                       *)
(*                                                                         *)
(*   Spec        one call of verify_claims or                              *)
(*               extract_claims_with_references (app/services/             *)
(*               verification.py): token check, the retry loop around      *)
(*               client.messages.create, parsing of the response.          *)
(*   SpecV3      one call of a V3 stage function (app/services/            *)
(*               verification_v3.py): extract_claims,                      *)
(*               llm_group_claims_into_results,                            *)
(*               peer_review_group_claims_into_results, compare_results.   *)
(*   SpecParser  one raw response text through extraction and decoding.    *)
(*   SpecReparse the same raw text parsed twice, after an earlier call.    *)
(*   SpecMetrics calculate_results_metrics and the stored summary.         *)
(*   SpecRun     one analyze_paper request (app/routers/api.py): duplicate *)
(*               check, the four stages, the save transaction.             *)
(*   SpecRaces   two analyze_paper requests on one database.               *)
(*   SpecAuth    login and callback of app/routers/auth.py.                *)
(*   SpecSubmissions  the endpoints of app/routers/submissions.py.         *)
(*                                                                         *)
(* A call is split at its oracle requests and sleeps, so that the order of *)
(* requests, sleeps and the final outcome of one call can be stated.       *)
(***************************************************************************)
EXTENDS Integers, Sequences, FiniteSets, TLC

VARIABLES
    fn,            \* the function being called
    pc,            \* position of the call
    text_len,      \* len() of the document text passed to the call
    claims,        \* claim_ids of the claims argument (Stage 2 / Stage 3)
    llm_results,   \* llm_results argument (Stage 4)
    peer_results,  \* peer_results argument (Stage 4)
    concordance,   \* concordance argument (metrics)
    response_text, \* text of an oracle response, as a sequence of symbols
    json_text,     \* what the parser extracted from response_text
    attempt,       \* loop variable of "for attempt in range(max_retries)"
    retry_delay,   \* local retry_delay of the retry loop
    requests,      \* outcome of every client.messages.create issued, in order
    payload,       \* what the text of the successful response holds
    sleeps,        \* argument of every time.sleep made, in order
    result,        \* how the call ended
    db,            \* rows of the V3 tables (papers, claims_v3, results_v3, ...)
    runs,          \* the analyze_paper requests in flight, by request
    oauth_states,  \* keys of _oauth_states of app/routers/auth.py
    auth_log,      \* every login / callback request served, in order
    sdb,           \* rows of the submissions, content and claim tables
    call           \* the last request served by the submissions router

vars == <<fn, pc, text_len, claims, llm_results, peer_results, concordance,
          response_text, json_text, attempt, retry_delay, requests, payload,
          sleeps, result, db, runs, oauth_states, auth_log, sdb, call>>

\* state of the HTTP handlers, which the oracle-calling functions never touch
web_vars == <<db, runs, oauth_states, auth_log, sdb, call>>

\* state of one oracle-calling function, which the HTTP handlers of the
\* authentication and submissions routers never touch
call_vars == <<fn, pc, text_len, claims, llm_results, peer_results,
               concordance, response_text, json_text, attempt, retry_delay,
               payload, sleeps, result>>

\* the server processes that share the database file
Workers == {1, 2}

NoCall == [endpoint |-> "none"]

\* no HTTP request has been served and every table is empty
WebIdle ==
    /\ db = [papers |-> <<>>, claims_v3 |-> <<>>, results_v3 |-> <<>>,
             results_concordance |-> <<>>, analysis_summary |-> <<>>]
    /\ runs = <<>>
    /\ oauth_states = [w \in Workers |-> {}]
    /\ auth_log = <<>>
    /\ sdb = [submissions |-> {}, content |-> {}, claim |-> {}]
    /\ call = NoCall

----------------------------------------------------------------------------
(* Bounds of the model *)

MaxClaims == 2      \* longest claim list
MaxResults == 2     \* longest result list
MaxIdsPerResult == 2 \* longest claim_ids list of one result
MaxRows == 1        \* longest concordance list in a Stage 4 payload

(* Program constants *)

max_retries == 3            \* verification.py:244, :420
initial_retry_delay == 2    \* verification.py:245, :421
max_tokens == 200000        \* config.py:22

----------------------------------------------------------------------------
(* Helpers *)

SeqsUpTo(S, n) == UNION {[1..k -> S] : k \in 0..n}

Range(s) == {s[i] : i \in DOMAIN s}

----------------------------------------------------------------------------
(* The oracle as seen by the callers *)

V1Functions == {"verify_claims", "extract_claims_with_references"}

\* What one client.messages.create can raise: an anthropic.APIError whose text
\* mentions "overloaded", any other APIError, or an exception that is no APIError.
ProviderErrors == {"overloaded", "api_error", "exception"}

IsAPIError(e) == e \in {"overloaded", "api_error"}

MentionsOverloaded(e) == e = "overloaded"

\* count_tokens: len(text) // 4
count_tokens(len) == len \div 4

\* Document lengths around the ceiling.
TextLens == {0, 4 * max_tokens, 4 * max_tokens + 3, 4 * max_tokens + 4}

\* What the text of a successful V1 response decodes to: not JSON, JSON that
\* LLMAnalysisResponse rejects, a valid response with an empty claims list, a
\* valid response with claims.
V1PayloadKinds == {"bad_json", "bad_schema", "empty_claims", "claims"}

V1Payloads == {[kind |-> k, data |-> <<>>] : k \in V1PayloadKinds}

NoPayload == [kind |-> "none", data |-> <<>>]

NoResult == [kind |-> "none", error |-> "none", cause |-> "none", value |-> <<>>]

Raised(error, cause) ==
    [kind |-> "raised", error |-> error, cause |-> cause, value |-> <<>>]

Returned(value) ==
    [kind |-> "returned", error |-> "none", cause |-> "none", value |-> value]

----------------------------------------------------------------------------
(* verify_claims / extract_claims_with_references *)

\* Mutant: every APIError is retried, whatever its text.
ShouldRetryAnyAPIError(e, a) ==
    IsAPIError(e) /\ a < max_retries - 1

\* "overloaded" in str(e).lower() and attempt < max_retries - 1, under
\* "except APIError".
ShouldRetry(e, a) ==
    IsAPIError(e) /\ MentionsOverloaded(e) /\ a < max_retries - 1

\* Mutant: the delay is not doubled.
BackoffConstant(d) == d

\* retry_delay *= 2
Backoff(d) == d * 2

\* Token check at the head of the function.
CheckTokens ==
    /\ pc = "start"
    /\ IF count_tokens(text_len) > max_tokens
         THEN /\ result' = Raised("ValueError", "document_exceeds_maximum_length")
              /\ pc' = "done"
         ELSE /\ result' = result
              /\ pc' = "request"
    /\ UNCHANGED <<web_vars, fn, text_len, claims, llm_results, peer_results, concordance,
                   response_text, json_text, attempt,
                   retry_delay, requests, payload, sleeps>>

\* client.messages.create is called in the loop body.
IssueRequest ==
    /\ pc = "request"
    /\ requests' = Append(requests, "pending")
    /\ pc' = "waiting"
    /\ UNCHANGED <<web_vars, fn, text_len, claims, llm_results, peer_results, concordance,
                   response_text, json_text, attempt,
                   retry_delay, payload, sleeps, result>>

SetLast(s, v) == [s EXCEPT ![Len(s)] = v]

\* Mutant: the break is missing, the loop goes on after a success.
RequestSucceedsNoBreak(p) ==
    /\ pc = "waiting"
    /\ requests' = SetLast(requests, "ok")
    /\ payload' = p
    /\ attempt' = attempt + 1
    /\ pc' = IF attempt + 1 < max_retries THEN "request" ELSE "parse"
    /\ UNCHANGED <<web_vars, fn, text_len, claims, llm_results, peer_results, concordance,
                   response_text, json_text,
                   retry_delay, sleeps, result>>

\* The request returns a message whose text holds p: break.
RequestSucceeds(p) ==
    /\ pc = "waiting"
    /\ requests' = SetLast(requests, "ok")
    /\ payload' = p
    /\ pc' = "parse"
    /\ UNCHANGED <<web_vars, fn, text_len, claims, llm_results, peer_results, concordance,
                   response_text, json_text, attempt,
                   retry_delay, sleeps, result>>

\* The request raises e. An exception that is no APIError is not caught; an
\* APIError is retried when ShouldRetry, re-raised otherwise.
RequestFails(e) ==
    /\ pc = "waiting"
    /\ requests' = SetLast(requests, e)
    /\ IF ShouldRetry(e, attempt)
         THEN /\ pc' = "sleep"
              /\ result' = result
         ELSE /\ pc' = "done"
              /\ result' = Raised(IF IsAPIError(e) THEN "APIError" ELSE "Exception", e)
    /\ UNCHANGED <<web_vars, fn, text_len, claims, llm_results, peer_results, concordance,
                   response_text, json_text, attempt,
                   retry_delay, payload, sleeps>>

\* time.sleep(retry_delay); retry_delay *= 2; continue. The loop head then
\* either starts the next attempt or, the range being exhausted, runs the
\* for-else.
Sleep ==
    /\ pc = "sleep"
    /\ sleeps' = Append(sleeps, retry_delay)
    /\ retry_delay' = Backoff(retry_delay)
    /\ attempt' = attempt + 1
    /\ IF attempt + 1 < max_retries
         THEN /\ pc' = "request"
              /\ result' = result
         ELSE /\ pc' = "done"
              /\ result' = Raised("ValueError", "failed_after_maximum_retries")
    /\ UNCHANGED <<web_vars, fn, text_len, claims, llm_results, peer_results, concordance,
                   response_text, json_text, requests,
                   payload>>

\* Fence stripping, json.loads, LLMAnalysisResponse(**data), the empty check.
ParseV1(p) ==
    CASE p.kind \in {"bad_json", "bad_schema"} ->
             Raised("ValueError", "llm_returned_invalid_json")
      [] p.kind = "empty_claims" ->
             Raised("ValueError", "llm_did_not_extract_any_claims")
      [] OTHER -> Returned(<<"claim">>)

ParseResponse ==
    /\ pc = "parse"
    /\ result' = ParseV1(payload)
    /\ pc' = "done"
    /\ UNCHANGED <<web_vars, fn, text_len, claims, llm_results, peer_results, concordance,
                   response_text, json_text, attempt,
                   retry_delay, requests, payload, sleeps>>

Init ==
    /\ WebIdle
    /\ fn \in V1Functions
    /\ pc = "start"
    /\ text_len \in TextLens
    /\ claims = <<>>
    /\ llm_results = <<>>
    /\ peer_results = <<>>
    /\ concordance = <<>>
    /\ response_text = <<>>
    /\ json_text = <<>>
    /\ attempt = 0
    /\ retry_delay = initial_retry_delay
    /\ requests = <<>>
    /\ payload = NoPayload
    /\ sleeps = <<>>
    /\ result = NoResult

Next ==
    \/ CheckTokens
    \/ IssueRequest
    \/ \E p \in V1Payloads : RequestSucceeds(p)
    \/ \E e \in ProviderErrors : RequestFails(e)
    \/ Sleep
    \/ ParseResponse

Spec == Init /\ [][Next]_vars

----------------------------------------------------------------------------
(* V3 stage functions: extract_claims, llm_group_claims_into_results,      *)
(* peer_review_group_claims_into_results, compare_results                  *)

GroupFunctions ==
    {"llm_group_claims_into_results", "peer_review_group_claims_into_results"}

V3Functions == {"extract_claims", "compare_results"} \cup GroupFunctions

\* A JSON null in the place of a string.
JsonNull == "<null>"

\* The claim_ids of the prompt's sequence C1, C2, ...
ClaimIdSeq == <<"C1", "C2", "C3">>

ClaimIdPool == Range(ClaimIdSeq)

\* claim_type strings an oracle payload may carry: the two documented ones and
\* another string.
ClaimTypePool == {"EXPLICIT", "IMPLICIT", "OTHER"}

\* evidence_type lists an oracle payload may carry: lists over the five
\* documented kinds, a list with another string, the empty list.
EvidenceTypePool ==
    {<<"DATA">>, <<"CITATION", "KNOWLEDGE">>, <<"INFERENCE", "SPECULATION">>,
     <<"GUESS">>, <<>>}

\* LLMClaimV3: claim_id: str, claim_type: str, evidence_type: List[str] (claim,
\* source_text and evidence_reasoning are free text and are left out).
ClaimPool ==
    [claim_id : ClaimIdPool, claim_type : ClaimTypePool,
     evidence_type : EvidenceTypePool]

\* LLMClaimsResponseV3.claims is a List of LLMClaimV3.
ClaimLists == SeqsUpTo(ClaimPool, MaxClaims)

\* The claim lists handed to Stage 2 and Stage 3: C1..Ck.
GroupedClaimLists == {SubSeq(ClaimIdSeq, 1, k) : k \in 1..MaxClaims}

\* Status strings an oracle payload may carry: the three documented ones,
\* another string, null.
StatusPool == {"SUPPORTED", "UNSUPPORTED", "UNCERTAIN", "MAYBE", JsonNull}

\* LLMResultV3: claim_ids: List[str], status: str (status_reasoning is free
\* text and is left out).
ResultPool ==
    [claim_ids : SeqsUpTo(ClaimIdPool, MaxIdsPerResult), status : StatusPool]

\* The result lists handed to compare_results.
ComparedResultPool ==
    { [claim_ids |-> <<"C1", "C2">>, status |-> "SUPPORTED"],
      [claim_ids |-> <<"C1">>, status |-> "SUPPORTED"],
      [claim_ids |-> <<"C2">>, status |-> "UNSUPPORTED"] }

RowIdLists == {<<>>, <<"C1">>, <<"C2">>, <<"C1", "C2">>}

RowStatusPool == {"SUPPORTED", "UNSUPPORTED", JsonNull}

AgreementPool == {"agree", "disagree", "disjoint", "partial"}

\* LLMResultsConcordanceRow (notes is free text and is left out).
RowPool ==
    [llm_claim_ids : RowIdLists, peer_claim_ids : RowIdLists,
     llm_status : RowStatusPool, peer_status : RowStatusPool,
     agreement_status : AgreementPool]

\* What the text of a successful response holds: nothing that
\* extract_json_from_response can return, text that json.loads rejects, a JSON
\* value of the wrong shape, or an object with the list the stage expects.
V3FailedPayloads ==
    {[kind |-> k, data |-> <<>>] : k \in {"no_json", "bad_json", "bad_schema"}}

V3Payloads(f) ==
    V3FailedPayloads \cup
    {[kind |-> "object", data |-> d] :
        d \in CASE f = "extract_claims" -> ClaimLists
               [] f \in GroupFunctions -> SeqsUpTo(ResultPool, MaxResults)
               [] OTHER -> SeqsUpTo(RowPool, MaxRows)}

\* pydantic validation of the decoded object: every field declared str must
\* hold a string. Nothing else is declared, so nothing else is checked.
ValidatesV3(f, data) ==
    CASE f = "extract_claims" -> TRUE
      [] f \in GroupFunctions ->
             \A i \in DOMAIN data : data[i].status # JsonNull
      [] OTHER ->
             \A i \in DOMAIN data :
                 /\ data[i].llm_status # JsonNull
                 /\ data[i].peer_status # JsonNull

\* From response_text to the return or the raise; every raise is wrapped by
\* the outer "except Exception" into ValueError("Stage N ... failed: ...").
ParseV3(f, p) ==
    CASE p.kind = "no_json" -> Raised("ValueError", "failed_to_extract_json")
      [] p.kind = "bad_json" -> Raised("ValueError", "failed_to_parse_json")
      [] p.kind = "bad_schema" -> Raised("ValueError", "failed_to_validate")
      [] OTHER -> IF ValidatesV3(f, p.data)
                    THEN Returned(p.data)
                    ELSE Raised("ValueError", "failed_to_validate")

\* client.messages.create, the only request of the function.
V3IssueRequest ==
    /\ pc = "start"
    /\ requests' = Append(requests, "pending")
    /\ pc' = "waiting"
    /\ UNCHANGED <<web_vars, fn, text_len, claims, llm_results, peer_results, concordance,
                   response_text, json_text, attempt,
                   retry_delay, payload, sleeps, result>>

\* The request raises e: "except Exception" turns it into the stage's
\* ValueError at once.
V3RequestFails(e) ==
    /\ pc = "waiting"
    /\ requests' = SetLast(requests, e)
    /\ result' = Raised("ValueError", e)
    /\ pc' = "done"
    /\ UNCHANGED <<web_vars, fn, text_len, claims, llm_results, peer_results, concordance,
                   response_text, json_text, attempt,
                   retry_delay, payload, sleeps>>

\* The request returns a message; payload is what its text holds.
V3RequestSucceeds ==
    /\ pc = "waiting"
    /\ requests' = SetLast(requests, "ok")
    /\ payload' \in V3Payloads(fn)
    /\ pc' = "parse"
    /\ UNCHANGED <<web_vars, fn, text_len, claims, llm_results, peer_results, concordance,
                   response_text, json_text, attempt,
                   retry_delay, sleeps, result>>

\* extract_json_from_response, json.loads, the response model, return.
V3ParseResponse ==
    /\ pc = "parse"
    /\ result' = ParseV3(fn, payload)
    /\ pc' = "done"
    /\ UNCHANGED <<web_vars, fn, text_len, claims, llm_results, peer_results, concordance,
                   response_text, json_text, attempt,
                   retry_delay, requests, payload, sleeps>>

InitV3 ==
    /\ WebIdle
    /\ fn \in V3Functions
    /\ pc = "start"
    /\ text_len \in (IF fn = "extract_claims" THEN TextLens ELSE {0})
    /\ claims \in (IF fn \in GroupFunctions
                     THEN GroupedClaimLists ELSE {<<>>})
    /\ llm_results \in (IF fn = "compare_results"
                          THEN SeqsUpTo(ComparedResultPool, MaxResults)
                          ELSE {<<>>})
    /\ peer_results \in (IF fn = "compare_results"
                           THEN SeqsUpTo(ComparedResultPool, MaxResults)
                           ELSE {<<>>})
    /\ concordance = <<>>
    /\ response_text = <<>>
    /\ json_text = <<>>
    /\ attempt = 0
    /\ retry_delay = 0
    /\ requests = <<>>
    /\ payload = NoPayload
    /\ sleeps = <<>>
    /\ result = NoResult

NextV3 ==
    \/ V3IssueRequest
    \/ \E e \in ProviderErrors : V3RequestFails(e)
    \/ V3RequestSucceeds
    \/ V3ParseResponse

SpecV3 == InitV3 /\ [][NextV3]_vars

----------------------------------------------------------------------------
(* The response parsers: from the text of a response to the JSON text that is
   handed to json.loads, and from there to the failure that is raised.

   A text is a sequence of symbols: "F" is a run of three backticks, "N" a
   newline, "j" the word json (a language tag after a fence, prose anywhere
   else), "{" and "}" the outer braces of a JSON object whose members are
   left out. Newline is the only whitespace. *)

MaxTextLen == 7

Symbols == {"F", "N", "j", "{", "}"}

Texts == SeqsUpTo(Symbols, MaxTextLen)

MinOf(S) == CHOOSE x \in S : \A y \in S : x <= y

MaxOf(S) == CHOOSE x \in S : \A y \in S : y <= x

\* str.find(c, from) and str.rfind(c), positions counted from 1, 0 when c does
\* not occur.
Find(s, c, from) ==
    LET I == {i \in from..Len(s) : s[i] = c}
    IN  IF I = {} THEN 0 ELSE MinOf(I)

RFind(s, c) ==
    LET I == {i \in DOMAIN s : s[i] = c}
    IN  IF I = {} THEN 0 ELSE MaxOf(I)

\* str.strip()
Strip(s) ==
    LET I == {i \in DOMAIN s : s[i] # "N"}
    IN  IF I = {} THEN <<>> ELSE SubSeq(s, MinOf(I), MaxOf(I))

\* s.split("\n"): the number of lines, and the first and last position of
\* line i (lines counted from 1; an empty line has LineEnd = LineStart - 1).
Newlines(s) == {i \in DOMAIN s : s[i] = "N"}

NumLines(s) == Cardinality(Newlines(s)) + 1

NthNewline(s, k) ==
    CHOOSE p \in Newlines(s) : Cardinality({q \in Newlines(s) : q < p}) = k - 1

LineStart(s, i) == IF i = 1 THEN 1 ELSE NthNewline(s, i - 1) + 1

LineEnd(s, i) == IF i = NumLines(s) THEN Len(s) ELSE NthNewline(s, i) - 1

Line(s, i) == SubSeq(s, LineStart(s, i), LineEnd(s, i))

\* "\n".join(lines[a - 1 : b]) for the lines of s: lines a..b joined.
JoinLines(s, a, b) ==
    IF a > b THEN <<>> ELSE SubSeq(s, LineStart(s, a), LineEnd(s, b))

NotNewline(c) == c # "N"

\* json.loads accepts the text: an object, with whitespace around it or
\* between its braces and nothing else.
IsJson(s) == SelectSeq(s, NotNewline) = <<"{", "}">>

\* extract_json_from_response (V3).
extract_json_from_response(text) ==
    LET text0 == Strip(text)
        fenceLines == {i \in 1..NumLines(text0) :
                          /\ Line(text0, i) # <<>>
                          /\ Line(text0, i)[1] = "F"}
        opening == IF fenceLines = {} THEN 0 ELSE MinOf(fenceLines)
        closingLines == {i \in (opening + 1)..NumLines(text0) :
                            Line(text0, i) = <<"F">>}
        closing == IF closingLines = {} THEN 0 ELSE MinOf(closingLines)
        text1 == IF "F" \in Range(text0) /\ opening # 0
                   THEN IF closing # 0 /\ opening + 1 < closing
                          THEN JoinLines(text0, opening + 1, closing - 1)
                          ELSE JoinLines(text0, opening + 1, NumLines(text0))
                   ELSE text0
        brace == Find(text, "{", 1)
        text2 == IF Strip(text1) = <<>> /\ brace # 0
                   THEN SubSeq(text, brace, Len(text))
                   ELSE text1
    IN  Strip(text2)

\* verify_claims / extract_claims_with_references (V1): the text between the
\* first fence and the next one, then the first "{" to the last "}".
V1ExtractJson(text) ==
    LET start_marker == Find(text, "F", 1)
        newline == Find(text, "N", start_marker)
        content_start == IF newline = 0 THEN 1 ELSE newline + 1
        end_marker == Find(text, "F", content_start)
        unfenced == IF start_marker # 0 /\ end_marker # 0
                      THEN Strip(SubSeq(text, content_start, end_marker - 1))
                      ELSE text
        json_start == Find(unfenced, "{", 1)
        json_end == RFind(unfenced, "}")
    IN  IF json_start # 0 /\ json_end >= json_start
          THEN SubSeq(unfenced, json_start, json_end)
          ELSE unfenced

\* s[json_start:json_end] of call_llm, json_end being -1 when there is no
\* closing fence: the slice then stops before the last character (a word
\* that loses its last letter is still a word).
V2Slice(s, json_start, json_end) ==
    IF json_end # 0
      THEN SubSeq(s, json_start, json_end - 1)
      ELSE IF json_start <= Len(s) /\ s[Len(s)] = "j"
             THEN SubSeq(s, json_start, Len(s))
             ELSE SubSeq(s, json_start, Len(s) - 1)

\* The position of the first "```json", 0 when there is none.
FindJsonFence(s) ==
    LET I == {i \in 1..(Len(s) - 1) : s[i] = "F" /\ s[i + 1] = "j"}
    IN  IF I = {} THEN 0 ELSE MinOf(I)

\* call_llm (V2): the whole text when json.loads accepts it, else the text
\* after the first "```json" (or the first fence) up to the next fence.
V2ExtractJson(text) ==
    IF IsJson(text) THEN text
    ELSE IF FindJsonFence(text) # 0
      THEN LET json_start == FindJsonFence(text) + 2
           IN  Strip(V2Slice(text, json_start, Find(text, "F", json_start)))
    ELSE IF "F" \in Range(text)
      THEN LET json_start == Find(text, "F", 1) + 1
           IN  Strip(V2Slice(text, json_start, Find(text, "F", json_start)))
    ELSE text

\* The functions whose response parsing is modelled: a V3 stage function, a V1
\* function, and call_llm of V2.
ParserFunctions == {"extract_claims", "verify_claims", "call_llm"}

ExtractJson(f, text) ==
    CASE f = "extract_claims" -> extract_json_from_response(text)
      [] f = "verify_claims" -> V1ExtractJson(text)
      [] OTHER -> V2ExtractJson(text)

\* json.loads has returned an object; schema validation follows.
Decoded == [kind |-> "decoded", error |-> "none", cause |-> "none", value |-> <<>>]

\* A parser that answers a failed parse with an empty list.
DecodeWithDefault(f, text, extracted) ==
    IF IsJson(extracted) THEN Decoded ELSE Returned(<<>>)

\* json.loads on the extracted text, and the exception that leaves the
\* function when it fails.
\*   V3: an empty extraction raises "Failed to extract JSON from response"
\*       before json.loads is tried; a JSONDecodeError e is re-raised as
\*       "Failed to parse LLM response as JSON: {e}".
\*   V1: "LLM returned invalid JSON: {e}".
\*   V2: a JSONDecodeError e of the fenced text reaches "except Exception" and
\*       becomes "Error calling LLM: {e}"; without a fence the function
\*       raises "Could not parse JSON from response: <preview>".
Decode(f, text, extracted) ==
    CASE f = "extract_claims" ->
             IF extracted = <<>>
               THEN Raised("ValueError", "failed_to_extract_json")
               ELSE IF IsJson(extracted)
                      THEN Decoded
                      ELSE Raised("ValueError", "failed_to_parse_json")
      [] f = "verify_claims" ->
             IF IsJson(extracted)
               THEN Decoded
               ELSE Raised("ValueError", "llm_returned_invalid_json")
      [] OTHER ->
             IF IsJson(extracted)
               THEN Decoded
               ELSE IF "F" \in Range(text)
                      THEN Raised("ValueError", "json_decode_error")
                      ELSE Raised("ValueError",
                                  "could_not_parse_json_from_response")

\* The failures whose message holds the JSONDecodeError.
DecodeErrorCauses ==
    {"failed_to_parse_json", "llm_returned_invalid_json", "json_decode_error"}

ParserExtract ==
    /\ pc = "extract"
    /\ json_text' = ExtractJson(fn, response_text)
    /\ pc' = "decode"
    /\ UNCHANGED <<web_vars, fn, text_len, claims, llm_results, peer_results, concordance,
                   response_text, attempt, retry_delay, requests, payload,
                   sleeps, result>>

ParserDecode ==
    /\ pc = "decode"
    /\ result' = Decode(fn, response_text, json_text)
    /\ pc' = "done"
    /\ UNCHANGED <<web_vars, fn, text_len, claims, llm_results, peer_results, concordance,
                   response_text, json_text, attempt, retry_delay, requests,
                   payload, sleeps>>

InitParser ==
    /\ WebIdle
    /\ fn \in ParserFunctions
    /\ pc = "extract"
    /\ response_text \in Texts
    /\ json_text = <<>>
    /\ text_len = 0
    /\ claims = <<>>
    /\ llm_results = <<>>
    /\ peer_results = <<>>
    /\ concordance = <<>>
    /\ attempt = 0
    /\ retry_delay = 0
    /\ requests = <<>>
    /\ payload = NoPayload
    /\ sleeps = <<>>
    /\ result = NoResult

NextParser == ParserExtract \/ ParserDecode

SpecParser == InitParser /\ [][NextParser]_vars

----------------------------------------------------------------------------
(* The metrics of a pipeline run: calculate_results_metrics and the summary
   that analyze_paper stores.

   A float is modelled by the exact fraction it stands for, num / den with
   den > 0; the rounding of float arithmetic is left out. *)

MaxMetricRows == 3

Fraction(n, d) == [num |-> n, den |-> d]

\* a = b and a <= b for fractions with positive denominators.
SameFraction(a, b) == a.num * b.den = b.num * a.den

FractionLeq(a, b) == a.num * b.den <= b.num * a.den

\* The rows handed to the metrics: they differ in agreement_status, the only
\* field the metrics read.
MetricRowPool ==
    {[llm_claim_ids |-> <<"C1">>, peer_claim_ids |-> <<"C1">>,
      llm_status |-> "SUPPORTED", peer_status |-> "SUPPORTED",
      agreement_status |-> a] : a \in AgreementPool}

\* The ORACLE results of a run: they differ in status, the only field the
\* summary reads.
MetricResultPool ==
    {[claim_ids |-> <<"C1">>, status |-> s] :
        s \in {"SUPPORTED", "UNSUPPORTED", "UNCERTAIN"}}

\* sum(1 for x in xs if x.<field> == v)
CountRows(rows, v) ==
    Cardinality({i \in DOMAIN rows : rows[i].agreement_status = v})

CountStatus(results, v) ==
    Cardinality({i \in DOMAIN results : results[i].status = v})

\* An aggregator that reports the rate as a fraction of one.
calculate_results_metrics_unscaled(llm, peer, rows) ==
    [ total_comparisons |-> Len(rows),
      agreements |-> CountRows(rows, "agree"),
      disagreements |-> CountRows(rows, "disagree"),
      disjoint |-> CountRows(rows, "disjoint"),
      agreement_rate |->
          IF Len(rows) > 0
            THEN Fraction(CountRows(rows, "agree"), Len(rows))
            ELSE Fraction(0, 1) ]

\* calculate_results_metrics: agreements / total_comparisons * 100, 0.0 when
\* there is no row.
calculate_results_metrics(llm, peer, rows) ==
    [ total_comparisons |-> Len(rows),
      agreements |-> CountRows(rows, "agree"),
      disagreements |-> CountRows(rows, "disagree"),
      disjoint |-> CountRows(rows, "disjoint"),
      agreement_rate |->
          IF Len(rows) > 0
            THEN Fraction(CountRows(rows, "agree") * 100, Len(rows))
            ELSE Fraction(0, 1) ]

\* calculate_verification_score of verification.py, on the statuses of the
\* ORACLE results: supported / (supported + unsupported) * 100, 0.0 when
\* neither occurs. analyze_paper does not call it.
calculate_verification_score(results) ==
    LET supported == CountStatus(results, "SUPPORTED")
        verifiable == supported + CountStatus(results, "UNSUPPORTED")
    IN  IF verifiable > 0
          THEN Fraction(supported * 100, verifiable)
          ELSE Fraction(0, 1)

\* metrics = calculate_results_metrics(llm_results, peer_results,
\* concordance_rows)
CalculateMetrics ==
    /\ pc = "metrics"
    /\ payload' = [kind |-> "metrics",
                   data |-> calculate_results_metrics(llm_results, peer_results,
                                                      concordance)]
    /\ pc' = "summary"
    /\ UNCHANGED <<web_vars, fn, text_len, claims, llm_results, peer_results, concordance,
                   response_text, json_text, attempt, retry_delay, requests,
                   sleeps, result>>

\* verification_score = metrics["agreement_rate"], the three counts over
\* llm_results, and the row inserted into analysis_summary.
InsertSummary ==
    /\ pc = "summary"
    /\ result' = Returned(
           [ supported_count |-> CountStatus(llm_results, "SUPPORTED"),
             unsupported_count |-> CountStatus(llm_results, "UNSUPPORTED"),
             uncertain_count |-> CountStatus(llm_results, "UNCERTAIN"),
             verification_score |-> payload.data.agreement_rate ])
    /\ pc' = "done"
    /\ UNCHANGED <<web_vars, fn, text_len, claims, llm_results, peer_results, concordance,
                   response_text, json_text, attempt, retry_delay, requests,
                   payload, sleeps>>

InitMetrics ==
    /\ WebIdle
    /\ fn = "analyze_paper"
    /\ pc = "metrics"
    /\ llm_results \in SeqsUpTo(MetricResultPool, MaxResults)
    /\ peer_results = <<>>
    /\ concordance \in SeqsUpTo(MetricRowPool, MaxMetricRows)
    /\ text_len = 0
    /\ claims = <<>>
    /\ response_text = <<>>
    /\ json_text = <<>>
    /\ attempt = 0
    /\ retry_delay = 0
    /\ requests = <<>>
    /\ payload = NoPayload
    /\ sleeps = <<>>
    /\ result = NoResult

NextMetrics == CalculateMetrics \/ InsertSummary

SpecMetrics == InitMetrics /\ [][NextMetrics]_vars

----------------------------------------------------------------------------
(* analyze_paper of app/routers/api.py (SpecRun, SpecRaces)                *)
(*                                                                         *)
(* A request is split at the duplicate check, at every stage call and at   *)
(* the save transaction.  The handler is "async def" and awaits nothing    *)
(* after the uploads are read, so inside one server process it runs from   *)
(* the duplicate check to its response without another handler of that     *)
(* process taking a step; handlers of different server processes           *)
(* interleave freely and share the database file.                          *)

MaxRunResults == 2  \* longest result list a stage returns to analyze_paper
MaxRunRows == 2     \* longest concordance list Stage 4 returns to analyze_paper

ContentHashes == {"h1", "h2"}

StageFunction(k) ==
    CASE k = 1 -> "extract_claims"
      [] k = 2 -> "llm_group_claims_into_results"
      [] k = 3 -> "peer_review_group_claims_into_results"
      [] OTHER -> "compare_results"

RunIdLists == {<<"C1">>, <<"C2">>}

RunClaimLists == {<<"C1">>, <<"C1", "C2">>}

RunResultPool == {[claim_ids |-> ids, status |-> "SUPPORTED"] : ids \in RunIdLists}

RunRowPool ==
    {[llm_claim_ids |-> l, peer_claim_ids |-> p] :
        l \in RunIdLists \cup {<<>>}, p \in RunIdLists \cup {<<>>}}
    \ {[llm_claim_ids |-> <<>>, peer_claim_ids |-> <<>>]}

\* What stage k returns to analyze_paper.  With several requests in flight
\* every stage has one answer, so that the interleavings stay enumerable.
StageValues(k, single) ==
    CASE k = 1 -> IF single THEN RunClaimLists ELSE {<<"C1">>}
      [] k \in {2, 3} ->
             IF single THEN SeqsUpTo(RunResultPool, MaxRunResults)
                       ELSE {<<[claim_ids |-> <<"C1">>, status |-> "SUPPORTED"]>>}
      [] OTHER ->
             IF single THEN SeqsUpTo(RunRowPool, MaxRunRows)
                       ELSE {<<[llm_claim_ids |-> <<"C1">>,
                                peer_claim_ids |-> <<"C1">>]>>}

\* How one call of the stage function of stage k can end: it returns its
\* list, or raises the ValueError its "except Exception" builds from a
\* provider error or from a response it cannot parse.
StageOutcomes(k, single) ==
    {Returned(v) : v \in StageValues(k, single)}
    \cup {Raised("ValueError", e) : e \in ProviderErrors}
    \cup {ParseV3(StageFunction(k), p) : p \in V3FailedPayloads}

NoResponse == [status |-> 0]

AnalyzeResponse(paper_id, message) ==
    [status |-> 200, paper_id |-> paper_id, message |-> message]

HTTPException(status_code, stage, detail) ==
    [status |-> status_code, stage |-> stage, detail |-> detail]

\* Mutant: the detail names neither the stage nor the error.
StageErrorGeneric(k, raised) ==
    HTTPException(500, 0, "Internal Server Error")

\* "except ValueError as e: HTTPException(422, f'Stage k (...): {str(e)}')",
\* "except Exception as e: HTTPException(500, f'Stage k error: {str(e)}')".
StageError(k, raised) ==
    IF raised.error = "ValueError"
      THEN HTTPException(422, k, raised.cause)
      ELSE HTTPException(500, k, raised.cause)

NewRun(w, h) ==
    [worker |-> w, content_hash |-> h, pc |-> "check", stage |-> 0,
     returned |-> 0, raised |-> NoResult,
     llm_claims |-> <<>>, llm_results |-> <<>>, peer_results |-> <<>>,
     concordance_rows |-> <<>>, response |-> NoResponse]

\* The local variable a stage's return value is bound to.
Bind(run, k, value) ==
    CASE k = 1 -> [run EXCEPT !.llm_claims = value]
      [] k = 2 -> [run EXCEPT !.llm_results = value]
      [] k = 3 -> [run EXCEPT !.peer_results = value]
      [] OTHER -> [run EXCEPT !.concordance_rows = value]

\* Mutant: a stage that raised is treated as one that returned an empty list.
AfterStageIgnoringFailure(run, outcome) ==
    LET k == run.stage
        value == IF outcome.kind = "raised" THEN <<>> ELSE outcome.value
    IN  [Bind(run, k, value) EXCEPT
            !.pc = IF k = 4 THEN "save" ELSE "call",
            !.stage = IF k = 4 THEN 4 ELSE k + 1,
            !.returned = IF outcome.kind = "raised" THEN @ ELSE k,
            !.raised = IF outcome.kind = "raised" THEN outcome ELSE @]

\* One "try: ... = stage(...) except ..." block of analyze_paper: a return
\* binds the list and goes on to the next stage (or to the save), a raise
\* ends the request with the HTTPException of the block.
AfterStage(run, outcome) ==
    LET k == run.stage
    IN  IF outcome.kind = "raised"
          THEN [run EXCEPT !.pc = "done", !.raised = outcome,
                           !.response = StageError(k, outcome)]
          ELSE [Bind(run, k, outcome.value) EXCEPT
                   !.pc = IF k = 4 THEN "save" ELSE "call",
                   !.stage = IF k = 4 THEN 4 ELSE k + 1,
                   !.returned = k]

(* The V3 tables.  A table is the sequence of its rows in id order: ids are  *)
(* AUTOINCREMENT and analyze_paper deletes nothing, so the id of a new row   *)
(* is the length of the table plus one.  The field "run" of a papers row is  *)
(* no column: it records which request inserted the row.                    *)

EmptyDb ==
    [papers |-> <<>>, claims_v3 |-> <<>>, results_v3 |-> <<>>,
     results_concordance |-> <<>>, analysis_summary |-> <<>>]

\* The database after an earlier analysis of the manuscript with hash "h1".
SeededDb ==
    [papers |-> <<[id |-> 1, content_hash |-> "h1", run |-> 0]>>,
     claims_v3 |-> <<[id |-> 1, paper_id |-> 1, claim_id |-> "C1"]>>,
     results_v3 |-> <<[id |-> 1, paper_id |-> 1, source |-> "LLM",
                       claim_ids |-> <<"C1">>]>>,
     results_concordance |-> <<>>,
     analysis_summary |-> <<[paper_id |-> 1, total_claims |-> 1]>>]

\* "SELECT id FROM papers WHERE content_hash = ?"
PapersWithHash(d, h) ==
    {d.papers[i].id : i \in {j \in DOMAIN d.papers : d.papers[j].content_hash = h}}

\* The ids cursor.lastrowid reports for n rows appended to a table.
NewIds(table, n) == [i \in 1..n |-> Len(table) + i]

\* "INSERT INTO papers (...)": paper_id = cursor.lastrowid
InsertPaper(d, h, r) ==
    [d EXCEPT !.papers =
        Append(@, [id |-> Len(@) + 1, content_hash |-> h, run |-> r])]

save_claims_v3(d, paper_id, claim_ids) ==
    [d EXCEPT !.claims_v3 = @ \o
        [i \in DOMAIN claim_ids |->
            [id |-> Len(@) + i, paper_id |-> paper_id, claim_id |-> claim_ids[i]]]]

save_results_v3(d, paper_id, results, source) ==
    [d EXCEPT !.results_v3 = @ \o
        [i \in DOMAIN results |->
            [id |-> Len(@) + i, paper_id |-> paper_id, source |-> source,
             claim_ids |-> results[i].claim_ids]]]

save_results_concordance(d, paper_id, concordance_to_save) ==
    [d EXCEPT !.results_concordance = @ \o
        [i \in DOMAIN concordance_to_save |->
            [id |-> Len(@) + i, paper_id |-> paper_id,
             llm_result_id |-> concordance_to_save[i].llm_result_id,
             peer_result_id |-> concordance_to_save[i].peer_result_id,
             llm_claim_ids |-> concordance_to_save[i].llm_claim_ids,
             peer_claim_ids |-> concordance_to_save[i].peer_claim_ids]]]

InsertSummary_v3(d, paper_id, total_claims) ==
    [d EXCEPT !.analysis_summary =
        Append(@, [paper_id |-> paper_id, total_claims |-> total_claims])]

\* None in an id column; the ids of rows start at 1.
NoId == 0

\* "llm_result_db_ids[i] if i < len(llm_result_db_ids) else None"
ResultIdAt(db_ids, i) == IF i <= Len(db_ids) THEN db_ids[i] ELSE NoId

\* The loop that builds concordance_to_save.
ConcordanceToSave(rows, llm_result_db_ids, peer_result_db_ids) ==
    [i \in DOMAIN rows |->
        [llm_result_id |-> ResultIdAt(llm_result_db_ids, i),
         peer_result_id |-> ResultIdAt(peer_result_db_ids, i),
         llm_claim_ids |-> rows[i].llm_claim_ids,
         peer_claim_ids |-> rows[i].peer_claim_ids]]

\* The statements of the save transaction in source order: element n is what
\* the connection has written once statement n has run.
SaveStatements(d, r, run) ==
    LET paper_id == Len(d.papers) + 1
        d1 == InsertPaper(d, run.content_hash, r)
        d2 == save_claims_v3(d1, paper_id, run.llm_claims)
        llm_result_db_ids == NewIds(d2.results_v3, Len(run.llm_results))
        d3 == save_results_v3(d2, paper_id, run.llm_results, "LLM")
        peer_result_db_ids == NewIds(d3.results_v3, Len(run.peer_results))
        d4 == save_results_v3(d3, paper_id, run.peer_results, "PEER_REVIEW")
        d5 == save_results_concordance(d4, paper_id,
                  ConcordanceToSave(run.concordance_rows, llm_result_db_ids,
                                    peer_result_db_ids))
        d6 == InsertSummary_v3(d5, paper_id, Len(run.llm_claims))
    IN  <<d1, d2, d3, d4, d5, d6>>

\* Mutant: what was written before the exception stays in the database.
get_db_without_rollback(before, written, raised) == written

\* "with get_db() as conn": commit when the block ends, rollback when it
\* raises.
get_db(before, written, raised) == IF raised THEN before ELSE written

\* No other handler of the same server process is between its duplicate
\* check and its response.
CanStep(r) ==
    \A q \in DOMAIN runs \ {r} :
        runs[q].worker = runs[r].worker => runs[q].pc \in {"check", "done"}

Single == Cardinality(DOMAIN runs) = 1

\* Mutant: the duplicate check finds nothing.
ExistingPaperNone(d, h) == {}

\* The papers the duplicate check finds.
ExistingPaper(d, h) == PapersWithHash(d, h)

\* Lines 170-186: the duplicate check, in a transaction of its own.
DuplicateCheck(r) ==
    /\ runs[r].pc = "check"
    /\ CanStep(r)
    /\ LET existing == ExistingPaper(db, runs[r].content_hash)
       IN  IF existing # {}
             THEN runs' = [runs EXCEPT ![r].pc = "done",
                              ![r].response = AnalyzeResponse(
                                  CHOOSE id \in existing :
                                      \A other \in existing : id <= other,
                                  "already_analyzed")]
             ELSE runs' = [runs EXCEPT ![r].pc = "call", ![r].stage = 1]
    /\ db' = get_db(db, db, FALSE)
    /\ UNCHANGED <<call_vars, requests, oauth_states, auth_log, sdb, call>>

\* The stage function of the next stage issues its oracle request.
IssueStage(r) ==
    /\ runs[r].pc = "call"
    /\ CanStep(r)
    /\ requests' = Append(requests, [run |-> r, stage |-> runs[r].stage])
    /\ runs' = [runs EXCEPT ![r].pc = "waiting"]
    /\ UNCHANGED <<call_vars, db, oauth_states, auth_log, sdb, call>>

\* The stage function returns or raises.
StageEnds(r) ==
    /\ runs[r].pc = "waiting"
    /\ CanStep(r)
    /\ \E outcome \in StageOutcomes(runs[r].stage, Single) :
           runs' = [runs EXCEPT ![r] = AfterStage(runs[r], outcome)]
    /\ UNCHANGED <<call_vars, requests, db, oauth_states, auth_log, sdb, call>>

\* Lines 290-392: the save transaction.  failed_at = 0: every statement and
\* the commit succeed.  failed_at = n: statement n raises, the exception
\* leaves the "with" block and the handler.
Save(r) ==
    /\ runs[r].pc = "save"
    /\ CanStep(r)
    /\ LET statements == SaveStatements(db, r, runs[r])
       IN  \E failed_at \in 0..Len(statements) :
               LET written == IF failed_at = 0 THEN statements[Len(statements)]
                              ELSE IF failed_at = 1 THEN db
                              ELSE statements[failed_at - 1]
               IN  /\ db' = get_db(db, written, failed_at # 0)
                   /\ runs' = [runs EXCEPT ![r].pc = "done",
                          ![r].response =
                              IF failed_at = 0
                                THEN AnalyzeResponse(Len(db.papers) + 1, "analyzed")
                                ELSE HTTPException(500, 0, "Internal Server Error")]
    /\ UNCHANGED <<call_vars, requests, oauth_states, auth_log, sdb, call>>

CallIdle ==
    /\ fn = "handler"
    /\ pc = "idle"
    /\ text_len = 0
    /\ claims = <<>>
    /\ llm_results = <<>>
    /\ peer_results = <<>>
    /\ concordance = <<>>
    /\ response_text = <<>>
    /\ json_text = <<>>
    /\ attempt = 0
    /\ retry_delay = 0
    /\ payload = NoPayload
    /\ sleeps = <<>>
    /\ result = NoResult

\* One request, against an empty database or one that holds a paper.
InitRun ==
    /\ CallIdle
    /\ requests = <<>>
    /\ db \in {EmptyDb, SeededDb}
    /\ runs \in {<<NewRun(1, h)>> : h \in ContentHashes}
    /\ oauth_states = [w \in Workers |-> {}]
    /\ auth_log = <<>>
    /\ sdb = [submissions |-> {}, content |-> {}, claim |-> {}]
    /\ call = NoCall

\* Two requests, served by one server process or by two.
InitRaces ==
    /\ CallIdle
    /\ requests = <<>>
    /\ db \in {EmptyDb, SeededDb}
    /\ runs \in {<<NewRun(1, h1), NewRun(w, h2)>> :
                    h1 \in ContentHashes, h2 \in ContentHashes, w \in Workers}
    /\ oauth_states = [w \in Workers |-> {}]
    /\ auth_log = <<>>
    /\ sdb = [submissions |-> {}, content |-> {}, claim |-> {}]
    /\ call = NoCall

NextRun ==
    \/ \E r \in DOMAIN runs : DuplicateCheck(r)
    \/ \E r \in DOMAIN runs : IssueStage(r)
    \/ \E r \in DOMAIN runs : StageEnds(r)
    \/ \E r \in DOMAIN runs : Save(r)

SpecRun == InitRun /\ [][NextRun]_vars

SpecRaces == InitRaces /\ [][NextRun]_vars

----------------------------------------------------------------------------
(* Parsing the same raw text twice (SpecReparse): a parser is called on an *)
(* earlier text, then twice on response_text.  payload.data is the list of *)
(* the calls made so far, each with its text and its outcome.              *)

MaxReparseLen == 4  \* longest raw text that is parsed twice
MaxEarlierLen == 1  \* longest raw text of the earlier call

\* Mutant: a parser that keeps the outcome of its last call in a module-level
\* variable and answers from it.
ParseCached(f, text, earlier) ==
    IF earlier # <<>>
      THEN earlier[Len(earlier)].outcome
      ELSE Decode(f, text, ExtractJson(f, text))

\* Extraction, json.loads and validation of one raw text.  The functions
\* read their argument and their locals only: what earlier calls did is
\* not an input.
Parse(f, text, earlier) == Decode(f, text, ExtractJson(f, text))

ParseCall(f, text, earlier) ==
    [text |-> text, outcome |-> Parse(f, text, earlier)]

ParseEarlier ==
    /\ pc = "earlier"
    /\ \E t \in SeqsUpTo(Symbols, MaxEarlierLen) :
           payload' = [kind |-> "calls",
                       data |-> Append(payload.data,
                                       ParseCall(fn, t, payload.data))]
    /\ pc' = "first"
    /\ UNCHANGED <<web_vars, fn, text_len, claims, llm_results, peer_results,
                   concordance, response_text, json_text, attempt,
                   retry_delay, requests, sleeps, result>>

ParseFirst ==
    /\ pc \in {"earlier", "first"}
    /\ payload' = [kind |-> "calls",
                   data |-> Append(payload.data,
                                   ParseCall(fn, response_text, payload.data))]
    /\ json_text' = ExtractJson(fn, response_text)
    /\ pc' = "again"
    /\ UNCHANGED <<web_vars, fn, text_len, claims, llm_results, peer_results,
                   concordance, response_text, attempt, retry_delay, requests,
                   sleeps, result>>

ParseAgain ==
    /\ pc = "again"
    /\ payload' = [kind |-> "calls",
                   data |-> Append(payload.data,
                                   ParseCall(fn, response_text, payload.data))]
    /\ result' = Parse(fn, response_text, payload.data)
    /\ pc' = "done"
    /\ UNCHANGED <<web_vars, fn, text_len, claims, llm_results, peer_results,
                   concordance, response_text, json_text, attempt,
                   retry_delay, requests, sleeps>>

InitReparse ==
    /\ WebIdle
    /\ fn \in ParserFunctions
    /\ pc = "earlier"
    /\ response_text \in SeqsUpTo(Symbols, MaxReparseLen)
    /\ payload = [kind |-> "calls", data |-> <<>>]
    /\ json_text = <<>>
    /\ text_len = 0
    /\ claims = <<>>
    /\ llm_results = <<>>
    /\ peer_results = <<>>
    /\ concordance = <<>>
    /\ attempt = 0
    /\ retry_delay = 0
    /\ requests = <<>>
    /\ sleeps = <<>>
    /\ result = NoResult

NextReparse == ParseEarlier \/ ParseFirst \/ ParseAgain

SpecReparse == InitReparse /\ [][NextReparse]_vars

----------------------------------------------------------------------------
(* login and callback of app/routers/auth.py (SpecAuth)                    *)
(*                                                                         *)
(* _oauth_states is a module-level dict: every server process has its own. *)
(* Both handlers are "async def" and await nothing, so a handler runs from *)
(* its first statement to its response as one step of its process.         *)

MaxAuthRequests == 4  \* requests served in one behaviour

\* Values a state parameter can take: what generate_state returns, and
\* anything a client makes up.
StateValues == {"s1", "s2"}

\* states some login has issued so far
Issued == {auth_log[i].state :
              i \in {j \in DOMAIN auth_log : auth_log[j].request = "login"}}

\* generate_state: secrets.token_urlsafe(32), a token no earlier call returned
generate_state == StateValues \ Issued

\* Mutant: the used state stays valid.
ConsumeNothing(states, state) == states

\* "del _oauth_states[state]"
Consume(states, state) == states \ {state}

\* How the part of callback after the state check can end: the session is
\* created and the cookie set (302), the token exchange raises a
\* RequestException (400), anything else raises (500).
CallbackStatuses == {302, 400, 500}

login(w) ==
    /\ Len(auth_log) < MaxAuthRequests
    /\ \E state \in generate_state :
           /\ oauth_states' = [oauth_states EXCEPT ![w] = @ \cup {state}]
           /\ auth_log' = Append(auth_log,
                  [request |-> "login", worker |-> w, state |-> state,
                   status |-> 307, exchanged |-> FALSE])
    /\ UNCHANGED <<call_vars, requests, db, runs, sdb, call>>

callback(w, state) ==
    /\ Len(auth_log) < MaxAuthRequests
    /\ IF state \notin oauth_states[w]
         THEN /\ auth_log' = Append(auth_log,
                     [request |-> "callback", worker |-> w, state |-> state,
                      status |-> 400, exchanged |-> FALSE])
              /\ UNCHANGED oauth_states
         ELSE /\ oauth_states' =
                     [oauth_states EXCEPT ![w] = Consume(@, state)]
              /\ \E s \in CallbackStatuses :
                     auth_log' = Append(auth_log,
                         [request |-> "callback", worker |-> w,
                          state |-> state, status |-> s, exchanged |-> TRUE])
    /\ UNCHANGED <<call_vars, requests, db, runs, sdb, call>>

InitAuth ==
    /\ CallIdle
    /\ requests = <<>>
    /\ db = EmptyDb
    /\ runs = <<>>
    /\ oauth_states = [w \in Workers |-> {}]
    /\ auth_log = <<>>
    /\ sdb = [submissions |-> {}, content |-> {}, claim |-> {}]
    /\ call = NoCall

NextAuth ==
    \/ \E w \in Workers : login(w)
    \/ \E w \in Workers : \E state \in StateValues : callback(w, state)

SpecAuth == InitAuth /\ [][NextAuth]_vars

----------------------------------------------------------------------------
(* The submissions router of app/routers/submissions.py and                *)
(* load_cllm_export of app/db_loader.py (SpecSubmissions)                  *)
(*                                                                         *)
(* sdb holds the rows of submissions, content and claim; result and        *)
(* claim_result are keyed and joined the way claim is, comparison the way  *)
(* content is.  A handler runs its statements on one connection inside one *)
(* "with get_db()" block and is one step.                                  *)

Users == {"u1", "u2"}

SubmissionIds == {"s1", "s2"}

ContentIds == {"c1", "c2"}

ClaimRowIds == {"k1", "k2"}

\* The endpoints that check ownership and then read.
ReadEndpoints == {"get_submission", "get_claims", "get_results", "get_comparison"}

\* The content and claims sections of an uploaded export: the ids of the
\* content rows, and for every claim row its id and its content_id.  Both
\* are what the client wrote into the file.
ExportFiles ==
    {[content |-> c, claims |-> k] :
        c \in SUBSET ContentIds,
        k \in {x \in SUBSET [id : ClaimRowIds, content_id : ContentIds] :
                  \A a \in x : \A b \in x : a.id = b.id => a = b}}

Ids(rows) == {row.id : row \in rows}

\* "SELECT user_id FROM submissions WHERE id = ?"
OwnerRows(d, s) == {row \in d.submissions : row.id = s}

\* "... FROM claim c JOIN content ct ON c.content_id = ct.id
\*      WHERE ct.submission_id = ?"
ClaimsOf(d, s) ==
    {k \in d.claim : \E ct \in d.content :
        ct.id = k.content_id /\ ct.submission_id = s}

ContentOf(d, s) == {ct \in d.content : ct.submission_id = s}

\* The ownership check of get_submission, get_claims, get_results,
\* get_comparison and delete_submission.
CheckOwnership(d, u, s) ==
    IF OwnerRows(d, s) = {} THEN 404
    ELSE IF \E row \in OwnerRows(d, s) : row.user_id # u THEN 403
    ELSE 200

Served(u, e, s, status, body) ==
    [endpoint |-> e, user |-> u, submission |-> s, status |-> status,
     body |-> body]

\* get_submission, get_claims, get_results, get_comparison: 404 or 403 from
\* the ownership check, otherwise the rows joined to the submission.
Read(u, e, s) ==
    /\ LET status == CheckOwnership(sdb, u, s)
       IN  call' = Served(u, e, s, status,
                          IF status = 200 THEN ClaimsOf(sdb, s) ELSE {})
    /\ UNCHANGED <<call_vars, requests, db, runs, oauth_states, auth_log, sdb>>

\* "DELETE FROM submissions WHERE id = ?": the rows of content and claim go
\* with it when the connection enforces foreign keys, and stay otherwise.
DeleteRows(d, s) ==
    IF d.foreign_keys
      THEN [d EXCEPT !.submissions = @ \ OwnerRows(d, s),
                     !.content = @ \ ContentOf(d, s),
                     !.claim = {k \in @ : \A ct \in ContentOf(d, s) :
                                   ct.id # k.content_id}]
      ELSE [d EXCEPT !.submissions = @ \ OwnerRows(d, s)]

delete_submission(u, s) ==
    /\ LET status == CheckOwnership(sdb, u, s)
       IN  /\ call' = Served(u, "delete_submission", s, status, {})
           /\ sdb' = IF status = 200 THEN DeleteRows(sdb, s) ELSE sdb
    /\ UNCHANGED <<call_vars, requests, db, runs, oauth_states, auth_log>>

\* The rows load_cllm_export inserts for the file, after import_cllm_data
\* has overwritten submission.id, submission.user_id and the submission_id
\* of every content row.  The claim rows keep the content_id of the file.
Loaded(d, u, s, file) ==
    [d EXCEPT !.submissions = @ \cup {[id |-> s, user_id |-> u]},
              !.content = @ \cup {[id |-> c, submission_id |-> s] :
                                     c \in file.content},
              !.claim = @ \cup {[id |-> k.id, content_id |-> k.content_id,
                                 claim |-> u] : k \in file.claims}]

\* sqlite3.IntegrityError: a PRIMARY KEY that exists already, or, when the
\* connection enforces foreign keys, a content_id without its content row.
IntegrityError(d, s, file) ==
    \/ s \in Ids(d.submissions)
    \/ file.content \cap Ids(d.content) # {}
    \/ Ids(file.claims) \cap Ids(d.claim) # {}
    \/ /\ d.foreign_keys
       /\ \E k \in file.claims :
              k.content_id \notin Ids(d.content) \cup file.content

\* import_cllm_data: no ownership check; every exception of the load is
\* answered with 500 after get_db has rolled back.
import_cllm_data(u, s, file) ==
    /\ IF IntegrityError(sdb, s, file)
         THEN /\ call' = Served(u, "import_cllm_data", s, 500, {})
              /\ sdb' = get_db(sdb, sdb, TRUE)
         ELSE /\ call' = Served(u, "import_cllm_data", s, 200, {})
              /\ sdb' = get_db(sdb, Loaded(sdb, u, s, file), FALSE)
    /\ UNCHANGED <<call_vars, requests, db, runs, oauth_states, auth_log>>

\* Empty tables; whether a connection enforces foreign keys is the default
\* of the SQLite library, get_connection sets no PRAGMA.
InitSubmissions ==
    /\ CallIdle
    /\ requests = <<>>
    /\ db = EmptyDb
    /\ runs = <<>>
    /\ oauth_states = [w \in Workers |-> {}]
    /\ auth_log = <<>>
    /\ sdb \in {[submissions |-> {}, content |-> {}, claim |-> {},
                 foreign_keys |-> b] : b \in BOOLEAN}
    /\ call = NoCall

NextSubmissions ==
    \/ \E u \in Users : \E e \in ReadEndpoints : \E s \in SubmissionIds :
           Read(u, e, s)
    \/ \E u \in Users : \E s \in SubmissionIds : delete_submission(u, s)
    \/ \E u \in Users : \E s \in SubmissionIds : \E file \in ExportFiles :
           import_cllm_data(u, s, file)

SpecSubmissions == InitSubmissions /\ [][NextSubmissions]_vars

----------------------------------------------------------------------------
(* Claims about verify_claims / extract_claims_with_references (Spec) *)

Last(s) == s[Len(s)]

\* C6: one call issues at most 3 oracle requests, issues a further request
\* only after the previous one failed with an "overloaded" error, and issues
\* no request after a successful response.
C6_RequestDiscipline ==
    /\ Len(requests) <= 3
    /\ \A i \in 1..(Len(requests) - 1) : requests[i] = "overloaded"
    /\ (pc \in {"request", "sleep"} /\ requests # <<>>) =>
           Last(requests) = "overloaded"

\* C6 witness: a call that used all three requests, the third one answered.
C6_Witness ==
    /\ pc = "done"
    /\ requests = <<"overloaded", "overloaded", "ok">>

\* C7: when every permitted attempt fails with "overloaded", the call ends
\* with the dedicated error ValueError("Failed after maximum retries"), not
\* with the provider error of the last attempt.
C7_ExhaustedRaisesDedicatedError ==
    (pc = "done" /\ requests = <<"overloaded", "overloaded", "overloaded">>) =>
        result = Raised("ValueError", "failed_after_maximum_retries")

\* C8: a request that fails with a provider error other than "overloaded"
\* ends the call with that error right after that request, whichever attempt
\* it was: no sleep follows it and no further request is issued.
C8_OtherErrorsPropagate ==
    \A i \in DOMAIN requests :
        requests[i] \in {"api_error", "exception"} =>
            /\ i = Len(requests)
            /\ pc = "done"
            /\ result.kind = "raised"
            /\ result.cause = requests[i]
            /\ Len(sleeps) = i - 1

\* C8 witness: the second request of a call fails with another APIError.
C8_Witness ==
    /\ requests = <<"overloaded", "api_error">>
    /\ pc = "done"

\* C9: when the first two requests fail with "overloaded" and the third
\* succeeds, the call has slept 2 s and then 4 s (6 s in all), no provider or
\* retry error reaches the caller, and a response that holds claims is
\* returned.
C9_TwoOverloadsThenSuccess ==
    requests = <<"overloaded", "overloaded", "ok">> =>
        /\ sleeps = <<2, 4>>
        /\ result.cause \notin
              (ProviderErrors \cup {"failed_after_maximum_retries"})
        /\ (pc = "done" /\ payload.kind = "claims") => result.kind = "returned"

\* C9 witness: such a call has returned its claims.
C9_Witness ==
    /\ requests = <<"overloaded", "overloaded", "ok">>
    /\ pc = "done"
    /\ result.kind = "returned"
    /\ sleeps[1] + sleeps[2] = 6

----------------------------------------------------------------------------
(* Claims about the V3 stage functions (SpecV3) *)

ReturnedBy(F) == fn \in F /\ pc = "done" /\ result.kind = "returned"

Overlap(a, b) == Cardinality(Range(a) \cap Range(b))

Overlaps(a, b) == Overlap(a, b) > 0

\* The PEER result with the largest claim_id overlap with ids, the lowest
\* index among equals.
BestPeer(ids, peers) ==
    CHOOSE j \in DOMAIN peers :
        \A k \in DOMAIN peers :
            \/ Overlap(ids, peers[k].claim_ids) < Overlap(ids, peers[j].claim_ids)
            \/ (Overlap(ids, peers[k].claim_ids) = Overlap(ids, peers[j].claim_ids)
                /\ j <= k)

StatusAgreement(a, b) == IF a = b THEN "agree" ELSE "disagree"

\* C1: every claim_id of every Result returned by Stage 2 or Stage 3 is a
\* claim_id of the claim list passed to the stage (a payload that references
\* an unknown claim_id is never returned).
C1_GroupingNeverInventsClaimIds ==
    ReturnedBy(GroupFunctions) =>
        \A i \in DOMAIN result.value :
            Range(result.value[i].claim_ids) \subseteq Range(claims)

\* C2: in every concordance row returned by compare_results, agreement is
\* disjoint iff exactly one of the two claim-id lists is empty, and the two
\* lists are never both empty.
C2_DisjointIffOneSideEmpty ==
    ReturnedBy({"compare_results"}) =>
        \A i \in DOMAIN result.value :
            LET row == result.value[i] IN
            /\ (row.agreement_status = "disjoint") <=>
                   ((row.llm_claim_ids = <<>>) # (row.peer_claim_ids = <<>>))
            /\ ~(row.llm_claim_ids = <<>> /\ row.peer_claim_ids = <<>>)

\* C3: every ORACLE result that overlaps no PEER result appears in the rows
\* returned by compare_results with an empty peer side and agreement
\* disjoint, and every PEER result that overlaps no ORACLE result appears with
\* an empty oracle side and agreement disjoint.
C3_UnmatchedResultsAreCovered ==
    ReturnedBy({"compare_results"}) =>
        /\ \A i \in DOMAIN llm_results :
               (\A j \in DOMAIN peer_results :
                    ~Overlaps(llm_results[i].claim_ids, peer_results[j].claim_ids))
               => \E k \in DOMAIN result.value :
                     /\ result.value[k].llm_claim_ids = llm_results[i].claim_ids
                     /\ result.value[k].peer_claim_ids = <<>>
                     /\ result.value[k].agreement_status = "disjoint"
        /\ \A j \in DOMAIN peer_results :
               (\A i \in DOMAIN llm_results :
                    ~Overlaps(llm_results[i].claim_ids, peer_results[j].claim_ids))
               => \E k \in DOMAIN result.value :
                     /\ result.value[k].peer_claim_ids = peer_results[j].claim_ids
                     /\ result.value[k].llm_claim_ids = <<>>
                     /\ result.value[k].agreement_status = "disjoint"

\* C4: for every ORACLE result that overlaps at least one PEER result,
\* compare_results returns exactly one row for it, and that row pairs it with
\* the PEER result of largest overlap (lowest index among equals), with the
\* two statuses and the agreement they give; so oracle [C1,C2]/SUPPORTED
\* against peer [C2]/UNSUPPORTED gives exactly one row, which disagrees.
C4_BestOverlapPairing ==
    ReturnedBy({"compare_results"}) =>
        \A i \in DOMAIN llm_results :
            LET r == llm_results[i]
                mine == {k \in DOMAIN result.value :
                            result.value[k].llm_claim_ids = r.claim_ids}
            IN  ((\E j \in DOMAIN peer_results :
                     Overlaps(r.claim_ids, peer_results[j].claim_ids))
                 /\ \A i2 \in DOMAIN llm_results :
                        llm_results[i2].claim_ids = r.claim_ids => i2 = i)
                => /\ Cardinality(mine) = 1
                   /\ \A k \in mine :
                         LET best == peer_results[BestPeer(r.claim_ids, peer_results)]
                             row == result.value[k]
                         IN  /\ row.peer_claim_ids = best.claim_ids
                             /\ row.llm_status = r.status
                             /\ row.peer_status = best.status
                             /\ row.agreement_status =
                                    StatusAgreement(r.status, best.status)

\* C5: in every row returned by compare_results whose two claim-id lists are
\* both non-empty, agreement is agree exactly when llm_status equals
\* peer_status and disagree otherwise.
C5_AgreementFollowsStatuses ==
    ReturnedBy({"compare_results"}) =>
        \A i \in DOMAIN result.value :
            LET row == result.value[i] IN
            (row.llm_claim_ids # <<>> /\ row.peer_claim_ids # <<>>) =>
                row.agreement_status =
                    StatusAgreement(row.llm_status, row.peer_status)

\* C10: a V3 stage function whose oracle request fails with "overloaded"
\* reports the failure only after retrying with backoff up to the maximum
\* number of attempts.
C10_V3OverloadIsRetried ==
    (fn \in V3Functions /\ pc = "done" /\ result.cause = "overloaded") =>
        /\ Len(requests) = max_retries
        /\ Len(sleeps) = max_retries - 1

\* The entry points that send a whole document to the oracle.
DocumentEntryPoints == V1Functions \cup {"extract_claims"}

\* C11: when the token estimate of the document exceeds settings.max_tokens,
\* an entry point that sends the document to the oracle issues no oracle
\* request and ends with the document-too-large error; the text is left as it
\* was given.
C11_OversizedDocumentIssuesNoRequest ==
    (fn \in DocumentEntryPoints /\ count_tokens(text_len) > max_tokens) =>
        /\ requests = <<>>
        /\ pc = "done" =>
               result = Raised("ValueError", "document_exceeds_maximum_length")

\* C12: Stage 1 never returns an empty claim list: a decoded payload whose
\* claims array is empty makes extract_claims fail.
C12_Stage1NeverReturnsEmpty ==
    ReturnedBy({"extract_claims"}) => result.value # <<>>

\* C13: the claim_ids of a claim list returned by Stage 1 are pairwise
\* distinct and follow the sequence C1, C2, ... in list order.
C13_ClaimIdsFollowSequence ==
    ReturnedBy({"extract_claims"}) =>
        \A i \in DOMAIN result.value :
            result.value[i].claim_id = ClaimIdSeq[i]

AllowedStatuses == {"SUPPORTED", "UNSUPPORTED", "UNCERTAIN"}

AllowedClaimTypes == {"EXPLICIT", "IMPLICIT"}

AllowedEvidenceTypes ==
    {"DATA", "CITATION", "KNOWLEDGE", "INFERENCE", "SPECULATION"}

AllowedAgreements == {"agree", "disagree", "disjoint"}

\* C14: every returned stage output has its enum fields inside the allowed
\* sets: the status of a Result, the claim_type and the evidence kinds of a
\* claim, the agreement of a concordance row; a payload with another value is
\* rejected.
C14_ReturnedEnumsAreAllowed ==
    /\ ReturnedBy({"extract_claims"}) =>
           \A i \in DOMAIN result.value :
               /\ result.value[i].claim_type \in AllowedClaimTypes
               /\ Range(result.value[i].evidence_type)
                      \subseteq AllowedEvidenceTypes
    /\ ReturnedBy(GroupFunctions) =>
           \A i \in DOMAIN result.value :
               result.value[i].status \in AllowedStatuses
    /\ ReturnedBy({"compare_results"}) =>
           \A i \in DOMAIN result.value :
               result.value[i].agreement_status \in AllowedAgreements

\* A disjoint row as the specification describes it: exactly one side has
\* claim_ids, and the empty side has no status.
OneSidedRow(row) ==
    /\ row.agreement_status = "disjoint"
    /\ \/ (row.llm_claim_ids = <<>> /\ row.llm_status = JsonNull
           /\ row.peer_claim_ids # <<>> /\ row.peer_status # JsonNull)
       \/ (row.peer_claim_ids = <<>> /\ row.peer_status = JsonNull
           /\ row.llm_claim_ids # <<>> /\ row.llm_status # JsonNull)

\* C18: a concordance payload whose rows are disjoint rows with one side empty
\* and that side's status null passes Stage 4 validation and is returned by
\* compare_results.
C18_OneSidedRowIsAccepted ==
    (fn = "compare_results" /\ pc = "done" /\ payload.kind = "object"
     /\ payload.data # <<>>
     /\ \A i \in DOMAIN payload.data : OneSidedRow(payload.data[i]))
    => (result.kind = "returned" /\ result.value = payload.data)

----------------------------------------------------------------------------
(* Claims about the response parsers (SpecParser) *)

Parsed == fn \in ParserFunctions /\ pc = "done"

\* C15 as stated: whenever the extracted text fails JSON decoding, the
\* function raises a parse failure that carries the decode error.
C15_DecodeFailureCarriesDecodeError ==
    (Parsed /\ ~IsJson(json_text)) =>
        /\ result.kind = "raised"
        /\ result.cause \in DecodeErrorCauses

\* The two failures that are raised without a JSONDecodeError: V3 extracted
\* nothing, V2 found no fence in a text that json.loads rejects.
RaisedWithoutDecodeError ==
    \/ fn = "extract_claims" /\ json_text = <<>>
    \/ fn = "call_llm" /\ "F" \notin Range(response_text)

\* C15 (amended): whenever the extracted text fails JSON decoding, the
\* function raises a ValueError and returns nothing, never an empty or default
\* list; the ValueError carries the decode error except when V3 extracted an
\* empty text ("Failed to extract JSON from response") and when V2 found no
\* fence ("Could not parse JSON from response").
C15_DecodeFailureRaises ==
    (Parsed /\ ~IsJson(json_text)) =>
        /\ result = Raised("ValueError", result.cause)
        /\ (result.cause \in DecodeErrorCauses) <=> ~RaisedWithoutDecodeError
        /\ RaisedWithoutDecodeError =>
               result.cause \in {"failed_to_extract_json",
                                 "could_not_parse_json_from_response"}

\* C15 witness: a V3 response with no fence and no brace has ended in the
\* parse failure that carries the decode error.
C15_Witness ==
    /\ Parsed
    /\ fn = "extract_claims"
    /\ response_text = <<"j", "N", "j">>
    /\ json_text = response_text
    /\ result = Raised("ValueError", "failed_to_parse_json")

\* The first fence of the text opens a fenced block: it starts a line, only a
\* language tag may follow it on that line, and another fence comes after
\* that line.
FirstFence(text) == Find(text, "F", 1)

OpeningLineEnd(text) == Find(text, "N", FirstFence(text))

ClosingFence(text) == Find(text, "F", OpeningLineEnd(text))

HasFencedBlock(text) ==
    /\ FirstFence(text) # 0
    /\ FirstFence(text) = 1 \/ text[FirstFence(text) - 1] = "N"
    /\ OpeningLineEnd(text) # 0
    /\ OpeningLineEnd(text) - FirstFence(text) \in {1, 2}
    /\ OpeningLineEnd(text) - FirstFence(text) = 2 =>
           text[FirstFence(text) + 1] = "j"
    /\ ClosingFence(text) # 0

\* The content strictly between the opening fence line and the next fence.
FencedContent(text) ==
    SubSeq(text, OpeningLineEnd(text) + 1, ClosingFence(text) - 1)

\* C16: for a response with an opening fence line (with or without a
\* language tag) followed later by a closing fence, the extracted payload is
\* the content between the first opening fence line and the next fence
\* (surrounding whitespace aside), and nothing of the fences or of the text
\* outside them.
C16_FencedContentIsExtracted ==
    (Parsed /\ HasFencedBlock(response_text)) =>
        json_text = Strip(FencedContent(response_text))

NumFences(text) == Cardinality({i \in DOMAIN text : text[i] = "F"})

\* No complete fenced block: no fence, or one fence that starts a line.
NoCompleteFencedBlock(text) ==
    \/ NumFences(text) = 0
    \/ /\ NumFences(text) = 1
       /\ FirstFence(text) = 1 \/ text[FirstFence(text) - 1] = "N"

\* C17: for a response with no complete fenced block that holds a "{" and a
\* later "}", the extracted payload is the text from the first "{" to the
\* last "}": prose before and after the JSON value is removed.
C17_BracesAreExtracted ==
    (Parsed /\ fn \in {"extract_claims", "verify_claims"}
     /\ NoCompleteFencedBlock(response_text)
     /\ Find(response_text, "{", 1) # 0
     /\ RFind(response_text, "}") > Find(response_text, "{", 1))
    => json_text = SubSeq(response_text, Find(response_text, "{", 1),
                          RFind(response_text, "}"))

----------------------------------------------------------------------------
(* Claims about the metrics (SpecMetrics) *)

MetricsComputed == fn = "analyze_paper" /\ payload.kind = "metrics"

C20_ScoreIsSupportedShare ==
    (fn = "analyze_paper" /\ pc = "done") =>
        LET score == result.value.verification_score
            supported == CountStatus(llm_results, "SUPPORTED")
            verifiable == supported + CountStatus(llm_results, "UNSUPPORTED")
        IN  IF verifiable > 0
              THEN \/ SameFraction(score, Fraction(supported, verifiable))
                   \/ SameFraction(score, calculate_verification_score(llm_results))
              ELSE SameFraction(score, Fraction(0, 1))

\* C29: for every concordance list accepted by Stage 4, the counts returned by
\* calculate_results_metrics partition the rows: agreements + disagreements +
\* disjoint = total_comparisons.
C29_CountsPartitionRows ==
    MetricsComputed =>
        LET m == payload.data
        IN  /\ m.total_comparisons = Len(concordance)
            /\ m.agreements + m.disagreements + m.disjoint
                   = m.total_comparisons

----------------------------------------------------------------------------
(* Claims about analyze_paper (SpecRun, SpecRaces) *)

\* positions in the request log of the oracle requests of request r
RequestsOf(r) == {i \in DOMAIN requests : requests[i].run = r}

StageFailed(r) == runs[r].raised.kind = "raised"

\* C21: in one pipeline run the oracle request of stage k+1 is issued only
\* after stage k has returned, in the order Stage 1, 2, 3, 4; once a stage
\* raises, no later stage issues a request and the run ends with that failure.
C21_StagesRunInOrder ==
    \A r \in DOMAIN runs :
        LET mine == RequestsOf(r)
            n == Cardinality(mine)
        IN  /\ n <= 4
            /\ {requests[i].stage : i \in mine} = 1..n
            /\ \A i \in mine : \A j \in mine :
                   i < j => requests[i].stage < requests[j].stage
            /\ n <= runs[r].returned + 1
            /\ StageFailed(r) =>
                   /\ runs[r].returned = n - 1
                   /\ runs[r].pc = "done"
                   /\ runs[r].response = StageError(n, runs[r].raised)

\* C21 witness: Stage 1 and Stage 2 returned, Stage 3 raised, and the request
\* of Stage 3 is the last one of the run.
C21_Witness ==
    /\ Single
    /\ runs[1].pc = "done"
    /\ StageFailed(1)
    /\ runs[1].returned = 2
    /\ Len(requests) = 3
    /\ requests[3].stage = 3

\* ids of the papers rows request r inserted
PapersOf(d, r) ==
    {d.papers[i].id : i \in {j \in DOMAIN d.papers : d.papers[j].run = r}}

\* number of rows of a table that belong to paper p
RowsOfPaper(table, p) == Cardinality({i \in DOMAIN table : table[i].paper_id = p})

Succeeded(r) ==
    /\ runs[r].pc = "done"
    /\ runs[r].response.status = 200
    /\ runs[r].response.message = "analyzed"

\* C22: persistence of a run is all-or-nothing: if a stage raises or a save
\* step fails part-way, the database holds no papers, claims_v3, results_v3,
\* results_concordance or analysis_summary row written by the run; all of
\* them are present only after the whole run succeeded.
C22_PersistenceIsAllOrNothing ==
    /\ \A r \in DOMAIN runs :
           IF Succeeded(r)
             THEN LET p == runs[r].response.paper_id
                  IN  /\ PapersOf(db, r) = {p}
                      /\ RowsOfPaper(db.claims_v3, p) = Len(runs[r].llm_claims)
                      /\ RowsOfPaper(db.results_v3, p)
                             = Len(runs[r].llm_results) + Len(runs[r].peer_results)
                      /\ RowsOfPaper(db.results_concordance, p)
                             = Len(runs[r].concordance_rows)
                      /\ RowsOfPaper(db.analysis_summary, p) = 1
             ELSE PapersOf(db, r) = {}
    /\ \A t \in {db.claims_v3, db.results_v3, db.results_concordance,
                 db.analysis_summary} :
           \A i \in DOMAIN t : \E j \in DOMAIN db.papers :
               db.papers[j].id = t[i].paper_id

\* C22 witness: every stage returned, a statement of the save transaction
\* raised, and the database is what it was before the request.
C22_Witness ==
    /\ Single
    /\ runs[1].pc = "done"
    /\ runs[1].returned = 4
    /\ runs[1].response.status = 500
    /\ db = SeededDb

\* C23: when stage k fails, the error returned to the caller names stage k
\* and no other stage, together with the error of the stage, so that the
\* failing stage and a parse failure or a provider failure can be told apart.
C23_ErrorNamesStageAndKind ==
    \A r \in DOMAIN runs :
        StageFailed(r) =>
            LET last == CHOOSE i \in RequestsOf(r) :
                            \A j \in RequestsOf(r) : j <= i
            IN  /\ runs[r].response.status \in {422, 500}
                /\ runs[r].response.stage = requests[last].stage
                /\ runs[r].response.detail = runs[r].raised.cause
                /\ runs[r].response.detail
                       \in ProviderErrors \cup {"failed_to_extract_json",
                               "failed_to_parse_json", "failed_to_validate"}

\* C23 witness: Stage 3 cannot decode the response and the caller is told so.
C23_Witness ==
    /\ Single
    /\ runs[1].response = HTTPException(422, 3, "failed_to_parse_json")
    /\ requests[Len(requests)].stage = 3

\* C25: for any interleaving of concurrent analyze_paper requests with the
\* same content hash, at most one papers row with that hash exists afterwards
\* and at most one of the requests runs the pipeline to a stored analysis.
C25_OnePaperPerHash ==
    /\ \A h \in ContentHashes : Cardinality(PapersWithHash(db, h)) <= 1
    /\ \A r \in DOMAIN runs : \A q \in DOMAIN runs :
           (r # q /\ runs[r].content_hash = runs[q].content_hash)
               => ~(Succeeded(r) /\ Succeeded(q))

\* the results_v3 row with the given id, as a set
ResultRow(id) ==
    {db.results_v3[i] : i \in {j \in DOMAIN db.results_v3 :
                                   db.results_v3[j].id = id}}

\* C26: every concordance row persisted with a non-null llm_result_id (resp.
\* peer_result_id) references the LLM (resp. PEER_REVIEW) result of the same
\* paper whose claim_ids equal the row's llm_claim_ids (resp. peer_claim_ids).
C26_ConcordanceReferencesItsResults ==
    \A i \in DOMAIN db.results_concordance :
        LET row == db.results_concordance[i]
        IN  /\ row.llm_result_id # NoId =>
                   \E res \in ResultRow(row.llm_result_id) :
                       /\ res.source = "LLM"
                       /\ res.paper_id = row.paper_id
                       /\ res.claim_ids = row.llm_claim_ids
            /\ row.peer_result_id # NoId =>
                   \E res \in ResultRow(row.peer_result_id) :
                       /\ res.source = "PEER_REVIEW"
                       /\ res.paper_id = row.paper_id
                       /\ res.claim_ids = row.peer_claim_ids

\* C30: when the content hash of the manuscript already exists in papers,
\* analyze_paper returns the id of the existing paper, issues no oracle
\* request and inserts or changes no database row.
C30_DuplicateIsReturnedUntouched ==
    /\ [][\A r \in DOMAIN runs :
            (/\ runs[r].pc = "check"
             /\ PapersWithHash(db, runs[r].content_hash) # {}
             /\ runs'[r] # runs[r])
            => /\ runs'[r].pc = "done"
               /\ runs'[r].response.status = 200
               /\ runs'[r].response.paper_id
                      \in PapersWithHash(db, runs[r].content_hash)
               /\ requests' = requests
               /\ db' = db]_vars
    /\ [](\A r \in DOMAIN runs :
            (runs[r].response.status = 200
             /\ runs[r].response.message = "already_analyzed")
            => RequestsOf(r) = {})

\* C30 witness: the request for the manuscript with hash "h1" has been
\* answered with the id of the paper the database already held.
C30_Witness ==
    /\ Single
    /\ runs[1].pc = "done"
    /\ runs[1].response = AnalyzeResponse(1, "already_analyzed")
    /\ db = SeededDb
    /\ requests = <<>>

----------------------------------------------------------------------------
(* Claims about re-parsing (SpecReparse) *)

----------------------------------------------------------------------------
(* Claims about login / callback (SpecAuth) *)

\* the callbacks that went past the state check
Accepted == {i \in DOMAIN auth_log :
                auth_log[i].request = "callback" /\ auth_log[i].exchanged}

\* C27: an OAuth state is accepted by the callback handler at most once and
\* only if an earlier login issued it; a callback whose state was never
\* issued or was already consumed is rejected before any token exchange or
\* session creation, under any interleaving of login and callback requests.
C27_StateIsAcceptedOnce ==
    /\ \A i \in Accepted :
           /\ \E j \in 1..(i - 1) :
                  /\ auth_log[j].request = "login"
                  /\ auth_log[j].state = auth_log[i].state
           /\ \A k \in Accepted : auth_log[k].state = auth_log[i].state => k = i
    /\ \A i \in DOMAIN auth_log :
           (/\ auth_log[i].request = "callback"
            /\ \/ \A j \in 1..(i - 1) :
                      ~(auth_log[j].request = "login"
                        /\ auth_log[j].state = auth_log[i].state)
               \/ \E k \in Accepted :
                      k < i /\ auth_log[k].state = auth_log[i].state)
           => /\ ~auth_log[i].exchanged
              /\ auth_log[i].status = 400

\* C27 witness: a state was issued, accepted with a session created, and
\* then presented again and rejected.
C27_Witness ==
    /\ Len(auth_log) >= 3
    /\ auth_log[1].request = "login"
    /\ auth_log[2] = [request |-> "callback", worker |-> auth_log[1].worker,
                      state |-> auth_log[1].state, status |-> 302,
                      exchanged |-> TRUE]
    /\ auth_log[3] = [request |-> "callback", worker |-> auth_log[1].worker,
                      state |-> auth_log[1].state, status |-> 400,
                      exchanged |-> FALSE]

----------------------------------------------------------------------------
(* Claims about the submissions router (SpecSubmissions) *)

\* what the endpoints show of submission s
ViewOf(d, s) == [content |-> ContentOf(d, s), claims |-> ClaimsOf(d, s)]

\* C28: whatever calls two users make to get_submission, get_claims,
\* get_results, get_comparison, delete_submission and import_cllm_data, a
\* user never reads, deletes or overwrites data of a submission whose user_id
\* is not their own: such a call ends in 403, 404 or an error and leaves the
\* rows of the other user's submission as they were.
C28_UsersAreIsolated ==
    [][\A row \in sdb.submissions :
           row.user_id # call'.user =>
               /\ row \in sdb'.submissions
               /\ ViewOf(sdb', row.id) = ViewOf(sdb, row.id)
               /\ call'.submission = row.id => call'.status \in {403, 404, 500}
               /\ call'.body \cap ClaimsOf(sdb, row.id) = {}]_vars

====
